---- MODULE Spec2Model ----
(***************************************************************************)
(* Model of the task manager's recurrence logic                            *)
(* (Task Management/recurrence_system.py).                                 *)
(*                                                                         *)
(* A date-time is a record [year, month, day, sec, us]: the calendar date, *)
(* the second of the day (hour, minute and second of datetime) and the     *)
(* microsecond.  "No value" (Python's None) is the record NoneVal, and an  *)
(* exception raised by the datetime constructor is the record ValueError.  *)
(***************************************************************************)
EXTENDS Integers, Sequences, FiniteSets, TLC

VARIABLES pattern, from_date, result, pc,
          tasks, recurrences, attachment_lists, next_file, last,
          reminded_tasks, shown, boxes, now,
          attachments_dir, dlg

vars == <<pattern, from_date, result, pc,
          tasks, recurrences, attachment_lists, next_file, last,
          reminded_tasks, shown, boxes, now,
          attachments_dir, dlg>>

callVars == <<pattern, from_date, result, pc>>
storeVars == <<tasks, recurrences, attachment_lists, next_file, last>>
reminderVars == <<reminded_tasks, shown, boxes, now>>

(***************************************************************************)
(* Bounds of the model.                                                    *)
(***************************************************************************)
MaxInterval == 3
MaxWeekdays == 2
MaxTasks == 3
MaxFiles == 2
MaxDicts == 3
MaxOccurrences == 2
MaxBoxes == 2

(***************************************************************************)
(* RecurrencePattern: the recurrence types and the Python values.          *)
(***************************************************************************)
NONE == "None"
DAILY == "Daily"
WEEKLY == "Weekly"
MONTHLY == "Monthly"
CUSTOM == "Custom"
UNKNOWN == "Yearly"

NoneVal == [tag |-> "None"]
ValueError == [tag |-> "ValueError"]

IsDateTime(v) == "year" \in DOMAIN v

(***************************************************************************)
(* The proleptic Gregorian calendar of Python's datetime module:           *)
(* date.toordinal, date.fromordinal, date.weekday, datetime + timedelta.   *)
(***************************************************************************)
IsLeap(y) == y % 4 = 0 /\ (y % 100 # 0 \/ y % 400 = 0)

DaysInMonthLib(y, m) ==
    IF m = 2 THEN (IF IsLeap(y) THEN 29 ELSE 28)
    ELSE IF m \in {4, 6, 9, 11} THEN 30 ELSE 31

DaysBeforeMonthTable == <<0, 31, 59, 90, 120, 151, 181, 212, 243, 273, 304, 334>>

DaysBeforeMonth(y, m) ==
    DaysBeforeMonthTable[m] + (IF m > 2 /\ IsLeap(y) THEN 1 ELSE 0)

DaysBeforeYear(y) ==
    LET p == y - 1 IN p * 365 + (p \div 4) - (p \div 100) + (p \div 400)

ToOrdinal(d) == DaysBeforeYear(d.year) + DaysBeforeMonth(d.year, d.month) + d.day

\* date.fromordinal: the year, month and day of the n-th day, day 1 being 0001-01-01
FromOrdinal(n) ==
    LET n0   == n - 1
        n400 == n0 \div 146097
        r400 == n0 % 146097
        n100 == r400 \div 36524
        r100 == r400 % 36524
        n4   == r100 \div 1461
        r4   == r100 % 1461
        n1   == r4 \div 365
        r1   == r4 % 365
        yr   == n400 * 400 + 1 + n100 * 100 + n4 * 4 + n1
    IN  IF n1 = 4 \/ n100 = 4
        THEN [year |-> yr - 1, month |-> 12, day |-> 31]
        ELSE LET leap == n1 = 3 /\ (n4 # 24 \/ n100 = 3)
                 m0   == (r1 + 50) \div 32
                 p0   == DaysBeforeMonthTable[m0] + (IF m0 > 2 /\ leap THEN 1 ELSE 0)
                 mth  == IF p0 > r1 THEN m0 - 1 ELSE m0
                 prec == IF p0 > r1
                         THEN p0 - (DaysInMonthLib(yr, mth))
                         ELSE p0
             IN  [year |-> yr, month |-> mth, day |-> r1 - prec + 1]

\* datetime.weekday(): 0 is Monday, 6 is Sunday
Weekday(d) == (ToOrdinal(d) + 6) % 7

\* from_date + timedelta(days=n): the date moves, the time of day is kept
AddDays(d, n) ==
    LET ymd == FromOrdinal(ToOrdinal(d) + n)
    IN  [year |-> ymd.year, month |-> ymd.month, day |-> ymd.day,
         sec |-> d.sec, us |-> d.us]

\* datetime(year, month, day, hour, minute, second): validates, microsecond 0
MakeDateTime(y, m, dd, s) ==
    IF m < 1 \/ m > 12 \/ dd < 1 \/ dd > DaysInMonthLib(y, m)
    THEN ValueError
    ELSE [year |-> y, month |-> m, day |-> dd, sec |-> s, us |-> 0]

\* datetime.date(): the date component, as the ordinal of the day
DateOf(d) == ToOrdinal(d)

(***************************************************************************)
(* RecurrencePattern._days_in_month                                        *)
(***************************************************************************)
\* every fourth year taken as a leap year
days_in_month_every_fourth(year, month) ==
    IF month = 2
    THEN IF year % 4 = 0 THEN 29 ELSE 28
    ELSE IF month \in {4, 6, 9, 11} THEN 30 ELSE 31

days_in_month(year, month) ==
    IF month = 2
    THEN IF year % 4 = 0 /\ (year % 100 # 0 \/ year % 400 = 0) THEN 29 ELSE 28
    ELSE IF month \in {4, 6, 9, 11} THEN 30 ELSE 31

(***************************************************************************)
(* RecurrencePattern.get_next_occurrence, branch by branch.                *)
(***************************************************************************)
\* sorted(self.weekdays, reverse=True)
RECURSIVE SortedSeqDescending(_)
SortedSeqDescending(S) ==
    IF S = {} THEN <<>>
    ELSE LET hi == CHOOSE x \in S : \A y \in S : x >= y
         IN  <<hi>> \o SortedSeqDescending(S \ {hi})

\* sorted(self.weekdays)
RECURSIVE SortedSeq(_)
SortedSeq(S) ==
    IF S = {} THEN <<>>
    ELSE LET lo == CHOOSE x \in S : \A y \in S : x <= y
         IN  <<lo>> \o SortedSeq(S \ {lo})

\* the for loop with >= in place of >
RECURSIVE FirstLaterOrSame(_, _)
FirstLaterOrSame(ws, current_weekday) ==
    IF ws = <<>> THEN NoneVal
    ELSE IF Head(ws) >= current_weekday THEN [weekday |-> Head(ws)]
    ELSE FirstLaterOrSame(Tail(ws), current_weekday)

\* the for loop over sorted(self.weekdays): the first weekday after the current one
RECURSIVE FirstLater(_, _)
FirstLater(ws, current_weekday) ==
    IF ws = <<>> THEN NoneVal
    ELSE IF Head(ws) > current_weekday THEN [weekday |-> Head(ws)]
    ELSE FirstLater(Tail(ws), current_weekday)

\* max(self.weekdays)
MaxWeekday(S) == CHOOSE x \in S : \A y \in S : x >= y

\* min(self.weekdays)
MinWeekday(S) == CHOOSE x \in S : \A y \in S : x <= y

\* timedelta(days=1): the interval ignored
DailyNextOneDay(p, d) == AddDays(d, 1)

DailyNext(p, d) == AddDays(d, p.interval)

\* timedelta(days=self.interval): weeks taken as days
WeeklyIntervalAsDays(p, d) == AddDays(d, p.interval)

WeeklySameWeekdayNext(p, d) == AddDays(d, 7 * p.interval)

WeeklyNext(p, d) ==
    LET current_weekday == Weekday(d)
        next_weekday    == FirstLater(SortedSeq(p.weekdays), current_weekday)
    IN  IF next_weekday # NoneVal
        THEN AddDays(d, next_weekday.weekday - current_weekday)
        ELSE LET days_to_next_week == 7 - current_weekday
                 days_to_add == days_to_next_week + (p.interval - 1) * 7
                                  + MinWeekday(p.weekdays)
             IN  AddDays(d, days_to_add)

\* the while loop that carries months over 12 into the year
RECURSIVE CarryMonths(_, _)
CarryMonths(year, month) ==
    IF month > 12 THEN CarryMonths(year + 1, month - 12)
    ELSE [year |-> year, month |-> month]

MonthlyNext(p, d) ==
    LET ym  == CarryMonths(d.year, d.month + p.interval)
        day == IF d.day < days_in_month(ym.year, ym.month)
               THEN d.day ELSE days_in_month(ym.year, ym.month)
    IN  MakeDateTime(ym.year, ym.month, day, d.sec)

\* timedelta(weeks=self.interval)
CustomNextWeeks(p, d) == AddDays(d, 7 * p.interval)

CustomNext(p, d) == AddDays(d, p.interval)

\* lines 86-137: the candidate next_date (NoneVal for an unrecognised type)
Candidate(p, d) ==
    IF p.pattern_type = DAILY THEN DailyNext(p, d)
    ELSE IF p.pattern_type = WEEKLY
         THEN IF p.weekdays = {} THEN WeeklySameWeekdayNext(p, d)
              ELSE WeeklyNext(p, d)
    ELSE IF p.pattern_type = MONTHLY THEN MonthlyNext(p, d)
    ELSE IF p.pattern_type = CUSTOM THEN CustomNext(p, d)
    ELSE NoneVal

\* line 82: the reference date is on or after the end date
EndReached(p, d) ==
    p.end_date # NoneVal /\ DateOf(d) >= DateOf(p.end_date)

\* the post-check left out
PastEndNever(p, next_date) == FALSE

\* the post-check with >= in place of >
PastEndOrOn(p, next_date) ==
    p.end_date # NoneVal /\ DateOf(next_date) >= DateOf(p.end_date)

\* line 140: the candidate is after the end date
PastEnd(p, next_date) ==
    p.end_date # NoneVal /\ DateOf(next_date) > DateOf(p.end_date)

\* no test for the type None, and every type that is not Daily, Weekly or
\* Monthly taken as Custom
get_next_occurrence_else_custom(p, d) ==
    IF EndReached(p, d) THEN NoneVal
    ELSE LET next_date ==
                 IF p.pattern_type = DAILY THEN DailyNext(p, d)
                 ELSE IF p.pattern_type = WEEKLY
                      THEN IF p.weekdays = {} THEN WeeklySameWeekdayNext(p, d)
                           ELSE WeeklyNext(p, d)
                 ELSE IF p.pattern_type = MONTHLY THEN MonthlyNext(p, d)
                 ELSE CustomNext(p, d)
         IN  IF ~IsDateTime(next_date) THEN next_date
             ELSE IF PastEnd(p, next_date) THEN NoneVal
             ELSE next_date

get_next_occurrence(p, d) ==
    IF p.pattern_type = NONE THEN NoneVal
    ELSE IF EndReached(p, d) THEN NoneVal
    ELSE LET next_date == Candidate(p, d)
         IN  IF ~IsDateTime(next_date) THEN next_date
             ELSE IF PastEnd(p, next_date) THEN NoneVal
             ELSE next_date

(***************************************************************************)
(* The inputs of the model.                                                *)
(***************************************************************************)
Years == {2023, 2024}
CenturyYears == {1900, 2000}
Days == {1, 15, 28, 29, 30, 31}
Times == {<<0, 0>>, <<32400, 500>>}

Dates ==
    {[year |-> y, month |-> m, day |-> dd] :
        y \in Years, m \in 1..12, dd \in Days}
    \cup {[year |-> y, month |-> m, day |-> dd] :
        y \in CenturyYears, m \in {1, 2, 12}, dd \in Days}

ValidDates == {x \in Dates : x.day <= DaysInMonthLib(x.year, x.month)}

FromDates ==
    {[year |-> x.year, month |-> x.month, day |-> x.day, sec |-> t[1], us |-> t[2]] :
        x \in ValidDates, t \in Times}

EndDates ==
    {[year |-> 2024, month |-> 2, day |-> 29, sec |-> 0, us |-> 0],
     [year |-> 2024, month |-> 3, day |-> 1, sec |-> 0, us |-> 0],
     [year |-> 2023, month |-> 12, day |-> 31, sec |-> 64800, us |-> 0]}

EndOpts == {NoneVal} \cup EndDates

Intervals == ((0 - 1)..MaxInterval) \cup {12, 13, 25}
ShortIntervals == (0 - 1)..MaxInterval

\* weekday lists as they can be stored: 0..6 are Monday..Sunday, 7 and -1 are malformed
WeekdayValues == (0 - 1)..7
WeekdaySets == {S \in SUBSET WeekdayValues : S # {} /\ Cardinality(S) <= MaxWeekdays}

\* occurrences: None, or a stored count
OccurrenceOpts == {NoneVal, [count |-> 0], [count |-> 2]}

Patterns ==
    [pattern_type : {DAILY, CUSTOM, MONTHLY, UNKNOWN}, interval : Intervals,
     weekdays : {{}}, end_date : EndOpts, occurrences : {NoneVal}]
    \cup
    [pattern_type : {NONE}, interval : Intervals,
     weekdays : {{}, {0, 4}}, end_date : EndOpts, occurrences : OccurrenceOpts]
    \cup
    [pattern_type : {WEEKLY}, interval : ShortIntervals,
     weekdays : {{}} \cup WeekdaySets, end_date : EndOpts, occurrences : {NoneVal}]

(***************************************************************************)
(* The state machine: one call of get_next_occurrence on drawn inputs.     *)
(***************************************************************************)
Init ==
    /\ pattern \in Patterns
    /\ from_date \in FromDates
    /\ result = NoneVal
    /\ pc = "call"
    /\ tasks = <<>>
    /\ recurrences = <<>>
    /\ attachment_lists = <<>>
    /\ next_file = 1
    /\ last = [kind |-> "start"]
    /\ reminded_tasks = {}
    /\ shown = <<>>
    /\ boxes = <<>>
    /\ now = NoneVal
    /\ attachments_dir = {}
    /\ dlg = NoneVal

GetNextOccurrence ==
    /\ pc = "call"
    /\ result' = get_next_occurrence(pattern, from_date)
    /\ pc' = "done"
    /\ UNCHANGED <<pattern, from_date>>
    /\ UNCHANGED storeVars
    /\ UNCHANGED <<reminderVars, attachments_dir, dlg>>

Next == GetNextOccurrence

Spec == Init /\ [][Next]_vars

TypeOK ==
    /\ pc \in {"call", "done"}
    /\ result = NoneVal \/ result = ValueError \/ IsDateTime(result)

(***************************************************************************)
(* The calendar as the properties speak of it: dates compared by year,     *)
(* month and day, and days counted one at a time.                          *)
(***************************************************************************)
DateKey(d) == d.year * 10000 + d.month * 100 + d.day

StrictlyLater(a, b) ==
    \/ DateKey(a) > DateKey(b)
    \/ DateKey(a) = DateKey(b) /\ a.sec > b.sec
    \/ DateKey(a) = DateKey(b) /\ a.sec = b.sec /\ a.us > b.us

GregorianLeap(y) ==
    IF y % 400 = 0 THEN TRUE ELSE IF y % 100 = 0 THEN FALSE ELSE y % 4 = 0

MonthLength(y, m) ==
    <<31, IF GregorianLeap(y) THEN 29 ELSE 28, 31, 30, 31, 30, 31, 31, 30, 31, 30, 31>>[m]

NextDay(d) ==
    IF d.day < MonthLength(d.year, d.month) THEN [d EXCEPT !.day = d.day + 1]
    ELSE IF d.month < 12 THEN [d EXCEPT !.month = d.month + 1, !.day = 1]
    ELSE [d EXCEPT !.year = d.year + 1, !.month = 1, !.day = 1]

RECURSIVE PlusDays(_, _)
PlusDays(d, n) == IF n <= 0 THEN d ELSE PlusDays(NextDay(d), n - 1)

Done == pc = "done"
NoEnd == pattern.end_date = NoneVal
HasEnd == pattern.end_date # NoneVal
ValidWeekdays == pattern.weekdays \subseteq 0..6
LaterWeekdays == {w \in pattern.weekdays : w > Weekday(from_date)}
SmallestOf(S) == CHOOSE x \in S : \A y \in S : x <= y

\* the end-date checks cut off a candidate c computed from from_date
CutOff(c) ==
    /\ HasEnd
    /\ \/ DateKey(from_date) >= DateKey(pattern.end_date)
       \/ DateKey(c) > DateKey(pattern.end_date)

(***************************************************************************)
(* C1: for Daily, Weekly, Monthly and Custom patterns with a positive      *)
(* interval and weekdays within 0..6, a date-time returned by              *)
(* get_next_occurrence is strictly later than from_date.                   *)
(***************************************************************************)
C1_StrictlyAfter ==
    (/\ Done
     /\ pattern.pattern_type \in {DAILY, WEEKLY, MONTHLY, CUSTOM}
     /\ pattern.interval > 0
     /\ ValidWeekdays
     /\ IsDateTime(result))
    => StrictlyLater(result, from_date)

C1_Witness ==
    /\ Done
    /\ pattern.pattern_type = WEEKLY
    /\ pattern.interval = 2
    /\ pattern.weekdays = {0, 4}
    /\ Weekday(from_date) = 4
    /\ IsDateTime(result)
    /\ DateKey(result) > DateKey(from_date)

(***************************************************************************)
(* C2: with an end date E, get_next_occurrence returns none whenever the   *)
(* candidate's date is strictly after E's date, and never returns a        *)
(* date-time whose date is after E's date.                                 *)
(***************************************************************************)
C2_EndDateStops ==
    (Done /\ HasEnd) =>
        LET c == Candidate(pattern, from_date)
        IN  /\ (IsDateTime(c) /\ DateKey(c) > DateKey(pattern.end_date))
                  => result = NoneVal
            /\ IsDateTime(result) => DateKey(result) <= DateKey(pattern.end_date)

C2_Witness ==
    /\ Done
    /\ HasEnd
    /\ pattern.pattern_type = MONTHLY
    /\ DateKey(from_date) < DateKey(pattern.end_date)
    /\ IsDateTime(Candidate(pattern, from_date))
    /\ DateKey(Candidate(pattern, from_date)) > DateKey(pattern.end_date)
    /\ result = NoneVal

(***************************************************************************)
(* C3 as stated: get_next_occurrence returns none whenever the candidate   *)
(* falls on or after the end date, so a candidate whose date equals the    *)
(* end date's date is not returned.                                        *)
(***************************************************************************)
C3_OnOrAfterEndIsNone ==
    (Done /\ HasEnd) =>
        LET c == Candidate(pattern, from_date)
        IN  (IsDateTime(c) /\ DateKey(c) >= DateKey(pattern.end_date))
               => result = NoneVal

(***************************************************************************)
(* C3 amended: get_next_occurrence returns none whenever from_date's date  *)
(* is on or after the end date's date or the candidate's date is strictly  *)
(* after it; a candidate whose date equals the end date's date is returned *)
(* when from_date's date is before the end date's date.                    *)
(***************************************************************************)
C3_EndDateInclusive ==
    (Done /\ HasEnd /\ pattern.pattern_type # NONE) =>
        LET c == Candidate(pattern, from_date)
        IN  /\ DateKey(from_date) >= DateKey(pattern.end_date) => result = NoneVal
            /\ (IsDateTime(c) /\ DateKey(c) > DateKey(pattern.end_date))
                  => result = NoneVal
            /\ (/\ IsDateTime(c)
                /\ DateKey(c) = DateKey(pattern.end_date)
                /\ DateKey(from_date) < DateKey(pattern.end_date))
                  => result = c

C3_Witness ==
    /\ Done
    /\ HasEnd
    /\ IsDateTime(result)
    /\ DateKey(result) = DateKey(pattern.end_date)
    /\ result.sec > pattern.end_date.sec

(***************************************************************************)
(* C4: a pattern of type None never produces an occurrence, whatever its   *)
(* interval, weekdays, end date and occurrences are.                       *)
(***************************************************************************)
C4_NoneNeverRecurs ==
    (Done /\ pattern.pattern_type = NONE) => result = NoneVal

C4_Witness ==
    /\ Done
    /\ pattern.pattern_type = NONE
    /\ pattern.interval = 1
    /\ pattern.weekdays # {}
    /\ HasEnd
    /\ DateKey(from_date) < DateKey(pattern.end_date)
    /\ pattern.occurrences = [count |-> 2]
    /\ result = NoneVal

(***************************************************************************)
(* C5: Monthly with a positive interval and no end date gives the date     *)
(* `interval` months after from_date's month, the year advancing past      *)
(* December, on the day min(from_date's day, length of the target month),  *)
(* February having 29 days exactly in Gregorian leap years.                *)
(***************************************************************************)
C5_MonthlyClamped ==
    (Done /\ pattern.pattern_type = MONTHLY /\ pattern.interval > 0 /\ NoEnd) =>
        LET total == from_date.year * 12 + (from_date.month - 1) + pattern.interval
            y     == total \div 12
            m     == (total % 12) + 1
            len   == MonthLength(y, m)
            dd    == IF from_date.day < len THEN from_date.day ELSE len
        IN  /\ IsDateTime(result)
            /\ result.year = y
            /\ result.month = m
            /\ result.day = dd

C5_Witness ==
    /\ Done
    /\ pattern.pattern_type = MONTHLY
    /\ pattern.interval = 1
    /\ NoEnd
    /\ DateKey(from_date) = 20240131
    /\ IsDateTime(result)
    /\ DateKey(result) = 20240229

(***************************************************************************)
(* C6 as stated: Weekly with a non-empty weekday set within 0..6 that has  *)
(* a weekday after from_date's weekday returns the date of from_date's own *)
(* Monday-based week on the smallest such weekday, whatever the interval.  *)
(***************************************************************************)
C6_SameWeekTarget ==
    PlusDays(from_date, SmallestOf(LaterWeekdays) - Weekday(from_date))

C6_LaterWeekdayThisWeek ==
    (/\ Done
     /\ pattern.pattern_type = WEEKLY
     /\ pattern.weekdays # {}
     /\ ValidWeekdays
     /\ LaterWeekdays # {})
    => result = C6_SameWeekTarget

(***************************************************************************)
(* C6 amended: in that case get_next_occurrence returns that date of       *)
(* from_date's own week, on the smallest later weekday, unless the end     *)
(* date stops it (from_date's date on or after the end date's date, or     *)
(* that date after the end date's date), when it returns none.             *)
(***************************************************************************)
C6_LaterWeekdayUnlessEnded ==
    (/\ Done
     /\ pattern.pattern_type = WEEKLY
     /\ pattern.weekdays # {}
     /\ ValidWeekdays
     /\ LaterWeekdays # {})
    => IF CutOff(C6_SameWeekTarget)
       THEN result = NoneVal
       ELSE /\ result = C6_SameWeekTarget
            /\ Weekday(result) = SmallestOf(LaterWeekdays)
            /\ ToOrdinal(result) - Weekday(result)
                 = ToOrdinal(from_date) - Weekday(from_date)

C6_Witness ==
    /\ Done
    /\ pattern.pattern_type = WEEKLY
    /\ pattern.weekdays = {0, 4}
    /\ pattern.interval = 3
    /\ Weekday(from_date) = 2
    /\ IsDateTime(result)
    /\ Weekday(result) = 4
    /\ ToOrdinal(result) = ToOrdinal(from_date) + 2

(***************************************************************************)
(* C7 as stated: Weekly with a non-empty weekday set within 0..6, a        *)
(* positive interval and no weekday after from_date's weekday returns the  *)
(* date 7*interval days after the Monday of from_date's week, moved        *)
(* forward to the smallest weekday of the set.                             *)
(***************************************************************************)
C7_NextBlockTarget ==
    PlusDays(from_date,
             7 * pattern.interval - Weekday(from_date) + SmallestOf(pattern.weekdays))

C7_NextWeekBlock ==
    (/\ Done
     /\ pattern.pattern_type = WEEKLY
     /\ pattern.weekdays # {}
     /\ ValidWeekdays
     /\ pattern.interval > 0
     /\ LaterWeekdays = {})
    => /\ result = C7_NextBlockTarget
       /\ Weekday(result) \in pattern.weekdays

(***************************************************************************)
(* C7 amended: in that case get_next_occurrence returns that date, whose   *)
(* weekday is the smallest weekday of the set, unless the end date stops   *)
(* it (from_date's date on or after the end date's date, or that date      *)
(* after the end date's date), when it returns none.                       *)
(***************************************************************************)
C7_NextWeekBlockUnlessEnded ==
    (/\ Done
     /\ pattern.pattern_type = WEEKLY
     /\ pattern.weekdays # {}
     /\ ValidWeekdays
     /\ pattern.interval > 0
     /\ LaterWeekdays = {})
    => IF CutOff(C7_NextBlockTarget)
       THEN result = NoneVal
       ELSE /\ result = C7_NextBlockTarget
            /\ Weekday(result) = SmallestOf(pattern.weekdays)
            /\ ToOrdinal(result) - Weekday(result)
                 = ToOrdinal(from_date) - Weekday(from_date) + 7 * pattern.interval

C7_Witness ==
    /\ Done
    /\ pattern.pattern_type = WEEKLY
    /\ pattern.weekdays = {0, 4}
    /\ pattern.interval = 1
    /\ Weekday(from_date) = 4
    /\ IsDateTime(result)
    /\ Weekday(result) = 0
    /\ ToOrdinal(result) = ToOrdinal(from_date) + 3

(***************************************************************************)
(* C8: Daily with a positive interval and no end date returns from_date    *)
(* plus `interval` calendar days, across month ends, leap days and year    *)
(* ends.                                                                   *)
(***************************************************************************)
C8_DailyAddsInterval ==
    (Done /\ pattern.pattern_type = DAILY /\ pattern.interval > 0 /\ NoEnd)
    => result = PlusDays(from_date, pattern.interval)

C8_Witness ==
    /\ Done
    /\ pattern.pattern_type = DAILY
    /\ pattern.interval = 2
    /\ NoEnd
    /\ DateKey(from_date) = 20230228
    /\ IsDateTime(result)
    /\ DateKey(result) = 20230302

(***************************************************************************)
(* C9: Weekly with an empty weekday set, a positive interval and no end    *)
(* date returns from_date plus 7*interval days, on from_date's weekday.    *)
(***************************************************************************)
C9_WeeklySameWeekday ==
    (/\ Done
     /\ pattern.pattern_type = WEEKLY
     /\ pattern.weekdays = {}
     /\ pattern.interval > 0
     /\ NoEnd)
    => /\ result = PlusDays(from_date, 7 * pattern.interval)
       /\ Weekday(result) = Weekday(from_date)

C9_Witness ==
    /\ Done
    /\ pattern.pattern_type = WEEKLY
    /\ pattern.weekdays = {}
    /\ pattern.interval = 2
    /\ NoEnd
    /\ DateKey(from_date) = 20231231
    /\ IsDateTime(result)
    /\ DateKey(result) = 20240114

(***************************************************************************)
(* C10: a Custom pattern returns exactly what the Daily pattern with the   *)
(* same interval, end date and other fields returns, date or none.         *)
(***************************************************************************)
C10_CustomIsDaily ==
    (Done /\ pattern.pattern_type = CUSTOM)
    => result = get_next_occurrence([pattern EXCEPT !.pattern_type = DAILY], from_date)

C10_Witness ==
    /\ Done
    /\ pattern.pattern_type = CUSTOM
    /\ pattern.interval = 3
    /\ HasEnd
    /\ IsDateTime(result)
    /\ ToOrdinal(result) = ToOrdinal(from_date) + 3

(***************************************************************************)
(* C11: a malformed weekday value (outside 0..6) stored next to a valid    *)
(* weekday is never matched: a Weekly pattern returns what it returns for  *)
(* the weekday set with the malformed values removed.                      *)
(***************************************************************************)
C11_MalformedNeverMatched ==
    (/\ Done
     /\ pattern.pattern_type = WEEKLY
     /\ pattern.interval > 0
     /\ pattern.weekdays \cap (0..6) # {}
     /\ pattern.weekdays \ (0..6) # {})
    => result = get_next_occurrence(
                    [pattern EXCEPT !.weekdays = pattern.weekdays \cap (0..6)],
                    from_date)

(***************************************************************************)
(* The task store.                                                         *)
(*                                                                         *)
(* tasks is TaskTableModel.tasks, a list of task dictionaries.  A task     *)
(* dictionary holds its recurrence dictionary and its attachment list by   *)
(* reference: recurrences and attachment_lists are the objects, and a      *)
(* field [ref |-> i] names the i-th of them.  A key that is absent reads   *)
(* as None (dict.get).  last records the latest operation and the store    *)
(* as it was when the operation began.                                     *)
(***************************************************************************)
NOT_STARTED == "Not Started"
COMPLETED == "Completed"
NO_REMINDER == "No Reminder"

\* a 'reminder_offset' that is absent, None or '': false in the test of line 496
NO_OFFSET == ""

RetTrue == [tag |-> "True"]
RetFalse == [tag |-> "False"]

\* an empty dictionary {}
EmptyDict == [tag |-> "{}"]

\* datetime.isoformat(): the text built from the fields of the date-time
IsoFormat(d) == [isoformat |-> <<d.year, d.month, d.day, d.sec, d.us>>]

\* a string that is not an ISO date-time
BadIsoText == [isoformat |-> <<>>]

\* datetime.fromisoformat(): the date-time read back, ValueError for other text
FromIsoFormat(t) ==
    IF Len(t.isoformat) = 5
    THEN [year |-> t.isoformat[1], month |-> t.isoformat[2], day |-> t.isoformat[3],
          sec |-> t.isoformat[4], us |-> t.isoformat[5]]
    ELSE ValueError

\* RecurrencePattern.to_dict
to_dict(p) ==
    [pattern_type |-> p.pattern_type, interval |-> p.interval,
     weekdays |-> p.weekdays,
     end_date |-> IF p.end_date # NoneVal THEN IsoFormat(p.end_date) ELSE NoneVal,
     occurrences |-> p.occurrences]

\* from_dict without the parsing of 'end_date': the pattern keeps none
from_dict_end_date_unparsed(data) ==
    IF data = EmptyDict
    THEN [pattern_type |-> NONE, interval |-> 1, weekdays |-> {},
          end_date |-> NoneVal, occurrences |-> NoneVal]
    ELSE [pattern_type |-> data.pattern_type, interval |-> data.interval,
          weekdays |-> data.weekdays,
          end_date |-> NoneVal,
          occurrences |-> data.occurrences]

\* RecurrencePattern.from_dict
from_dict(data) ==
    IF data = EmptyDict
    THEN [pattern_type |-> NONE, interval |-> 1, weekdays |-> {},
          end_date |-> NoneVal, occurrences |-> NoneVal]
    ELSE [pattern_type |-> data.pattern_type, interval |-> data.interval,
          weekdays |-> data.weekdays,
          end_date |-> IF data.end_date # NoneVal
                       THEN (IF FromIsoFormat(data.end_date) = ValueError
                             THEN NoneVal
                             ELSE FromIsoFormat(data.end_date))
                       ELSE NoneVal,
          occurrences |-> data.occurrences]

\* next_deadline - timedelta(seconds=n), 0 <= n <= one day
MinusSeconds(d, n) ==
    IF d.sec >= n THEN [d EXCEPT !.sec = d.sec - n]
    ELSE [AddDays(d, 0 - 1) EXCEPT !.sec = d.sec + 86400 - n]

\* the reminder offsets of the if/elif chain and their timedelta, in seconds
ReminderSeconds ==
    [o \in {"5 minutes before", "15 minutes before", "30 minutes before",
            "1 hour before", "1 day before"} |->
        CASE o = "5 minutes before" -> 300
          [] o = "15 minutes before" -> 900
          [] o = "30 minutes before" -> 1800
          [] o = "1 hour before" -> 3600
          [] o = "1 day before" -> 86400]

\* bool(x) of an occurrence count: None and 0 are false
Truthy(occurrences) == occurrences # NoneVal /\ occurrences.count # 0

\* the dictionary a task's 'recurrence' key holds (None when absent or None)
RecurrenceOf(task_data) ==
    IF task_data.recurrence = NoneVal THEN NoneVal
    ELSE recurrences[task_data.recurrence.ref]

\* the reminder time left as task_data.copy() left it
NewReminderTimeCopied(task_data, next_deadline) == task_data.reminder_time

\* lines 494-506: the reminder time of the new task
NewReminderTime(task_data, next_deadline) ==
    IF task_data.reminder_offset # NO_OFFSET
       /\ task_data.reminder_offset # NO_REMINDER
       /\ task_data.reminder_offset \in DOMAIN ReminderSeconds
    THEN MinusSeconds(next_deadline, ReminderSeconds[task_data.reminder_offset])
    ELSE task_data.reminder_time

\* the copy made without the decrement
NewRecurrenceDictSameCount(recurrence, data) == data

\* lines 508-512: the recurrence dictionary of the new task; the copy made
\* for a decremented count becomes a new object
NewRecurrenceDict(recurrence, data) ==
    [data EXCEPT !.occurrences = [count |-> recurrence.occurrences.count - 1]]

\* the new task without the reset of status and completed
NewTaskStillCompleted(task_data, recurrence, next_deadline) ==
    [task_data EXCEPT
        !.deadline = next_deadline,
        !.reminder_time = NewReminderTime(task_data, next_deadline),
        !.recurrence = IF Truthy(recurrence.occurrences)
                       THEN [ref |-> Len(recurrences) + 1]
                       ELSE task_data.recurrence]

\* lines 488-512: the new task
NewTask(task_data, recurrence, next_deadline) ==
    [task_data EXCEPT
        !.deadline = next_deadline,
        !.status = NOT_STARTED,
        !.completed = FALSE,
        !.reminder_time = NewReminderTime(task_data, next_deadline),
        !.recurrence = IF Truthy(recurrence.occurrences)
                       THEN [ref |-> Len(recurrences) + 1]
                       ELSE task_data.recurrence]

\* lines 485-517, next_deadline being computed: False when there is none, or
\* True and the task that add_task is given, with the dictionary made for it
AfterNextDeadline(task_data, recurrence, data, next_deadline) ==
    IF next_deadline = ValueError THEN [ret |-> ValueError]
    ELSE IF next_deadline = NoneVal THEN [ret |-> RetFalse]
    ELSE [ret |-> RetTrue,
          new_task |-> NewTask(task_data, recurrence, next_deadline),
          new_dict |-> IF Truthy(recurrence.occurrences)
                       THEN <<NewRecurrenceDict(recurrence, data)>>
                       ELSE <<>>]

\* handle_completed_task without the test for the type None of line 473, on a
\* get_next_occurrence that has none either
handle_completed_task_no_none_test(task_data) ==
    LET data == RecurrenceOf(task_data)
    IN  IF data = NoneVal \/ data = EmptyDict THEN [ret |-> RetFalse]
        ELSE LET recurrence == from_dict(data)
                 deadline   == task_data.deadline
             IN  IF deadline = NoneVal THEN [ret |-> RetFalse]
                 ELSE CHOOSE out \in
                          {AfterNextDeadline(task_data, recurrence, data, next_deadline) :
                              next_deadline \in
                                  {get_next_occurrence_else_custom(recurrence, deadline)}} : TRUE

\* handle_completed_task without the test of the deadline of lines 481-482:
\* get_next_occurrence(None) raises
handle_completed_task_no_deadline_test(task_data) ==
    LET data == RecurrenceOf(task_data)
    IN  IF data = NoneVal \/ data = EmptyDict THEN [ret |-> RetFalse]
        ELSE IF data.pattern_type = NONE THEN [ret |-> RetFalse]
        ELSE LET recurrence == from_dict(data)
                 deadline   == task_data.deadline
             IN  IF deadline = NoneVal THEN [ret |-> ValueError]
                 ELSE CHOOSE out \in
                          {AfterNextDeadline(task_data, recurrence, data, next_deadline) :
                              next_deadline \in {get_next_occurrence(recurrence, deadline)}} : TRUE

\* RecurrenceSystem.handle_completed_task: what it returns (or raises), and
\* the task it adds when it returns True
handle_completed_task(task_data) ==
    LET data == RecurrenceOf(task_data)
    IN  IF data = NoneVal \/ data = EmptyDict THEN [ret |-> RetFalse]
        ELSE IF data.pattern_type = NONE THEN [ret |-> RetFalse]
        ELSE LET recurrence == from_dict(data)
                 deadline   == task_data.deadline
             IN  IF deadline = NoneVal THEN [ret |-> RetFalse]
                 ELSE CHOOSE out \in
                          {AfterNextDeadline(task_data, recurrence, data, next_deadline) :
                              next_deadline \in {get_next_occurrence(recurrence, deadline)}} : TRUE

\* self.tasks[-1] = task_data: the last record replaced
add_task_over_last(ts, task_data) == [ts EXCEPT ![Len(ts)] = task_data]

\* TaskTableModel.add_task
add_task(ts, task_data) == Append(ts, task_data)

\* mark_completed that sets the status only
mark_completed_status_only(ts, row) == [ts EXCEPT ![row].status = COMPLETED]

\* TaskTableModel.mark_completed
mark_completed(ts, row) ==
    [ts EXCEPT ![row].status = COMPLETED, ![row].completed = TRUE]

\* the store as an operation finds it
Snapshot(kind, row) ==
    [kind |-> kind, row |-> row, tasks |-> tasks, recurrences |-> recurrences,
     attachment_lists |-> attachment_lists]

\* the call made on the stored record itself, with no task_data.copy()
CallHandleNoCopy(ts, row, kind) ==
    \E out \in {handle_completed_task(ts[row])} :
        /\ tasks' = IF out.ret = RetTrue
                    THEN add_task([ts EXCEPT ![row] = out.new_task], out.new_task)
                    ELSE ts
        /\ recurrences' = IF out.ret = RetTrue
                          THEN recurrences \o out.new_dict
                          ELSE recurrences
        /\ last' = [Snapshot(kind, row) EXCEPT !.tasks = ts]
                       @@ [ret |-> out.ret, completed_before |-> tasks[row].completed]
        /\ UNCHANGED <<attachment_lists, next_file>>

\* the call handle_completed_task(tasks[row]) and the add_task it makes
CallHandle(ts, row, kind) ==
    \E out \in {handle_completed_task(ts[row])} :
        /\ tasks' = IF out.ret = RetTrue THEN add_task(ts, out.new_task) ELSE ts
        /\ recurrences' = IF out.ret = RetTrue
                          THEN recurrences \o out.new_dict
                          ELSE recurrences
        /\ last' = [Snapshot(kind, row) EXCEPT !.tasks = ts]
                       @@ [ret |-> out.ret, completed_before |-> tasks[row].completed]
        /\ UNCHANGED <<attachment_lists, next_file>>

\* RecurrenceSystem.handle_completed_task called on a record of the store
HandleCompletedTask(row) ==
    /\ Len(tasks) < MaxTasks
    /\ CallHandle(tasks, row, "handle")
    /\ UNCHANGED callVars
    /\ UNCHANGED <<reminderVars, attachments_dir, dlg>>

\* TaskManagerApp.show_context_menu, Mark as Completed: mark_completed, then
\* handle_completed_task when the task has a recurrence
MarkAsCompleted(row) ==
    /\ Len(tasks) < MaxTasks
    /\ LET marked == mark_completed(tasks, row)
       IN  IF RecurrenceOf(marked[row]) # NoneVal /\ RecurrenceOf(marked[row]) # EmptyDict
           THEN CallHandle(marked, row, "mark")
           ELSE /\ tasks' = marked
                /\ last' = [kind |-> "mark_only", row |-> row]
                /\ UNCHANGED <<recurrences, attachment_lists, next_file>>
    /\ UNCHANGED callVars
    /\ UNCHANGED <<reminderVars, attachments_dir, dlg>>

\* AttachmentDialog.add_attachment on the task of a row (TaskDialog.manage_attachments):
\* the dialog works on the task's own list unless that list is empty
AddAttachment(row) ==
    /\ next_file <= MaxFiles
    /\ LET ref == tasks[row].attachments.ref
       IN  IF attachment_lists[ref] # <<>>
           THEN /\ attachment_lists' =
                       [attachment_lists EXCEPT ![ref] = Append(@, next_file)]
                /\ UNCHANGED tasks
           ELSE /\ attachment_lists' = Append(attachment_lists, <<next_file>>)
                /\ tasks' = [tasks EXCEPT
                                ![row].attachments = [ref |-> Len(attachment_lists) + 1]]
    /\ next_file' = next_file + 1
    /\ attachments_dir' = attachments_dir \cup {next_file}
    /\ last' = Snapshot("attachments", row)
    /\ UNCHANGED recurrences
    /\ UNCHANGED callVars
    /\ UNCHANGED <<reminderVars, dlg>>

\* list.remove(x)
RECURSIVE ListRemove(_, _)
ListRemove(l, x) ==
    IF l = <<>> THEN <<>>
    ELSE IF Head(l) = x THEN Tail(l)
    ELSE <<Head(l)>> \o ListRemove(Tail(l), x)

\* AttachmentDialog.remove_attachment on the task of a row
RemoveAttachment(row, path) ==
    /\ LET ref == tasks[row].attachments.ref
       IN  /\ \E i \in 1..Len(attachment_lists[ref]) : attachment_lists[ref][i] = path
           /\ attachment_lists' =
                  [attachment_lists EXCEPT ![ref] = ListRemove(@, path)]
    /\ last' = Snapshot("attachments", row)
    /\ UNCHANGED <<tasks, recurrences, next_file>>
    /\ UNCHANGED callVars
    /\ UNCHANGED <<reminderVars, attachments_dir, dlg>>

\* the patterns the recurrence dialog is made to return in the model
DialogPatterns ==
    {[pattern_type |-> DAILY, interval |-> 1, weekdays |-> {},
      end_date |-> NoneVal, occurrences |-> [count |-> 1]],
     [pattern_type |-> NONE, interval |-> 1, weekdays |-> {},
      end_date |-> NoneVal, occurrences |-> NoneVal]}

\* TaskDialog.set_recurrence on the task of a row: a new dictionary is stored
SetRecurrence(row, p) ==
    /\ Len(recurrences) < MaxDicts
    /\ recurrences' = Append(recurrences, to_dict(p))
    /\ tasks' = [tasks EXCEPT ![row].recurrence = [ref |-> Len(recurrences) + 1]]
    /\ last' = Snapshot("recurrence", row)
    /\ UNCHANGED <<attachment_lists, next_file>>
    /\ UNCHANGED callVars
    /\ UNCHANGED <<reminderVars, attachments_dir, dlg>>

(***************************************************************************)
(* The records the store starts with.                                      *)
(***************************************************************************)
Deadlines ==
    {[year |-> 2024, month |-> 1, day |-> 31, sec |-> 32400, us |-> 0],
     [year |-> 2024, month |-> 2, day |-> 28, sec |-> 120, us |-> 0]}

StoreEndDate == [year |-> 2024, month |-> 3, day |-> 1, sec |-> 0, us |-> 0]

Counts == {[count |-> n] : n \in 0..MaxOccurrences}

\* the recurrence dictionaries a record can hold; weekdays are within 0..6
StoredDicts ==
    [pattern_type : {NONE, DAILY, MONTHLY, CUSTOM, UNKNOWN},
     interval : (0 - 1)..1, weekdays : {{}},
     end_date : {NoneVal, IsoFormat(StoreEndDate), BadIsoText},
     occurrences : {NoneVal} \cup Counts]
    \cup
    [pattern_type : {WEEKLY},
     interval : 0..1, weekdays : {{}, {0, 4}},
     end_date : {NoneVal, IsoFormat(StoreEndDate)},
     occurrences : {NoneVal} \cup Counts]
    \cup {EmptyDict}

ReminderOffsets ==
    {NO_OFFSET, NO_REMINDER, "2 days before"} \cup DOMAIN ReminderSeconds

\* TaskDialog.get_task_data: the reminder time that goes with a deadline
ReminderTimeFor(deadline, offset) ==
    IF deadline # NoneVal /\ offset \in DOMAIN ReminderSeconds
    THEN MinusSeconds(deadline, ReminderSeconds[offset])
    ELSE NoneVal

\* a store of one record, as add_task or load_tasks leaves it
OneTask(deadline, offset, status, files, rec) ==
    /\ attachment_lists = <<files>>
    /\ attachments_dir = {files[i] : i \in 1..Len(files)}
    /\ recurrences = IF rec = NoneVal THEN <<>> ELSE <<rec>>
    /\ tasks = <<[title |-> "Report",
                  deadline |-> deadline,
                  status |-> status,
                  completed |-> (status = COMPLETED),
                  reminder_offset |-> offset,
                  reminder_time |-> ReminderTimeFor(deadline, offset),
                  recurrence |-> IF rec = NoneVal THEN NoneVal ELSE [ref |-> 1],
                  attachments |-> [ref |-> 1]]>>

MonthlyDict ==
    [pattern_type |-> MONTHLY, interval |-> 1, weekdays |-> {},
     end_date |-> NoneVal, occurrences |-> NoneVal]

StoreInit ==
    /\ pattern = NoneVal
    /\ from_date = NoneVal
    /\ result = NoneVal
    /\ pc = "store"
    /\ next_file = 1
    /\ last = [kind |-> "start"]
    /\ reminded_tasks = {}
    /\ shown = <<>>
    /\ boxes = <<>>
    /\ now = NoneVal
    /\ dlg = NoneVal
    /\ \E deadline \in Deadlines \cup {NoneVal},
          offset \in ReminderOffsets,
          status \in {NOT_STARTED, COMPLETED},
          files \in {<<>>, <<0>>},
          rec \in StoredDicts \cup {NoneVal} :
          /\ offset \in {NO_REMINDER, "1 day before"}
                \/ rec \in DialogPatterns \cup {MonthlyDict}
          /\ OneTask(deadline, offset, status, files, rec)

StoreNext ==
    \/ \E row \in 1..Len(tasks) : HandleCompletedTask(row)
    \/ \E row \in 1..Len(tasks) : MarkAsCompleted(row)

StoreSpec == StoreInit /\ [][StoreNext]_vars

(***************************************************************************)
(* The store with the dialogs that edit a stored record in place.          *)
(***************************************************************************)
Files == 0..MaxFiles

EditInit ==
    /\ pattern = NoneVal
    /\ from_date = NoneVal
    /\ result = NoneVal
    /\ pc = "edit"
    /\ next_file = 1
    /\ last = [kind |-> "start"]
    /\ reminded_tasks = {}
    /\ shown = <<>>
    /\ boxes = <<>>
    /\ now = NoneVal
    /\ dlg = NoneVal
    /\ \E deadline \in Deadlines,
          files \in {<<>>, <<0>>},
          rec \in DialogPatterns \cup {MonthlyDict, NoneVal} :
          OneTask(deadline, "1 day before", NOT_STARTED, files, rec)

EditNext ==
    \/ \E row \in 1..Len(tasks) : HandleCompletedTask(row)
    \/ \E row \in 1..Len(tasks) : MarkAsCompleted(row)
    \/ \E row \in 1..Len(tasks) : AddAttachment(row)
    \/ \E row \in 1..Len(tasks), path \in Files : RemoveAttachment(row, path)
    \/ \E row \in 1..Len(tasks), p \in DialogPatterns : SetRecurrence(row, p)

EditSpec == EditInit /\ [][EditNext]_vars

(***************************************************************************)
(* RecurrenceDialog: the widgets of the dialog.  dlg is NoneVal while no   *)
(* dialog is open, and else the record of the widgets' values.  A check    *)
(* box emits toggled only when setChecked changes its state.               *)
(***************************************************************************)
\* QDate.currentDate().addMonths(1), for the day the model runs on
DialogDefaultEnd == [year |-> 2024, month |-> 2, day |-> 29]

\* QSpinBox.setValue: the value is kept within the minimum 1 and the maximum 999
SpinValue(n) == IF n < 1 THEN 1 ELSE IF n > 999 THEN 999 ELSE n

\* RecurrenceDialog.setup_ui: the widgets as they are made
SetupUi ==
    [pattern_combo |-> NONE, interval_spin |-> 1, weekday_checks |-> {},
     end_date_check |-> FALSE, end_date_edit |-> DialogDefaultEnd,
     occurrences_check |-> FALSE, occurrences_spin |-> 10]

RECURSIVE SetEndDateCheck(_, _)
RECURSIVE SetOccurrencesCheck(_, _)

\* RecurrenceDialog.end_date_toggled
end_date_toggled(w, checked) ==
    IF checked THEN SetOccurrencesCheck(w, FALSE) ELSE w

\* occurrences_toggled that leaves the other check box as it is
occurrences_toggled_alone(w, checked) == w

\* RecurrenceDialog.occurrences_toggled
occurrences_toggled(w, checked) ==
    IF checked THEN SetEndDateCheck(w, FALSE) ELSE w

\* end_date_check.setChecked(checked), with the slot connected to toggled
SetEndDateCheck(w, checked) ==
    IF w.end_date_check = checked THEN w
    ELSE end_date_toggled([w EXCEPT !.end_date_check = checked], checked)

\* occurrences_check.setChecked(checked), with the slot connected to toggled
SetOccurrencesCheck(w, checked) ==
    IF w.occurrences_check = checked THEN w
    ELSE occurrences_toggled([w EXCEPT !.occurrences_check = checked], checked)

\* RecurrenceDialog.load_recurrence
load_recurrence(w, recurrence) ==
    LET typed == IF recurrence.pattern_type \in {NONE, DAILY, WEEKLY, MONTHLY, CUSTOM}
                 THEN [w EXCEPT !.pattern_combo = recurrence.pattern_type]
                 ELSE w
        set   == [typed EXCEPT !.interval_spin = SpinValue(recurrence.interval),
                               !.weekday_checks = recurrence.weekdays \cap (0..6)]
        ended == IF recurrence.end_date # NoneVal
                 THEN [SetEndDateCheck(set, TRUE) EXCEPT
                          !.end_date_edit = [year |-> recurrence.end_date.year,
                                             month |-> recurrence.end_date.month,
                                             day |-> recurrence.end_date.day]]
                 ELSE set
    IN  IF Truthy(recurrence.occurrences)
        THEN [SetOccurrencesCheck(ended, TRUE) EXCEPT
                 !.occurrences_spin = SpinValue(recurrence.occurrences.count)]
        ELSE ended

\* RecurrenceDialog.get_recurrence
get_recurrence(w) ==
    [pattern_type |-> w.pattern_combo,
     interval |-> w.interval_spin,
     weekdays |-> IF w.pattern_combo = WEEKLY THEN w.weekday_checks ELSE {},
     end_date |-> IF w.end_date_check
                  THEN [year |-> w.end_date_edit.year, month |-> w.end_date_edit.month,
                        day |-> w.end_date_edit.day, sec |-> 0, us |-> 0]
                  ELSE NoneVal,
     occurrences |-> IF w.occurrences_check
                     THEN [count |-> w.occurrences_spin]
                     ELSE NoneVal]

\* the patterns a dialog is opened on
LoadedPatterns ==
    [pattern_type : {NONE, DAILY, WEEKLY, UNKNOWN},
     interval : 0..2,
     weekdays : {{}, {0, 4}},
     end_date : {NoneVal, StoreEndDate},
     occurrences : {NoneVal} \cup Counts]

\* RecurrenceDialog.__init__: setup_ui, then load_recurrence
OpenRecurrenceDialog(recurrence) ==
    /\ dlg = NoneVal
    /\ dlg' = load_recurrence(SetupUi, recurrence)
    /\ last' = [kind |-> "open_recurrence", loaded |-> recurrence]
    /\ UNCHANGED <<tasks, recurrences, attachment_lists, next_file>>
    /\ UNCHANGED <<callVars, reminderVars, attachments_dir>>

\* a click on the check box 'End by:'
ClickEndDateCheck ==
    /\ dlg # NoneVal
    /\ dlg' = SetEndDateCheck(dlg, ~dlg.end_date_check)
    /\ UNCHANGED <<storeVars, callVars, reminderVars, attachments_dir>>

\* a click on the check box 'End after:'
ClickOccurrencesCheck ==
    /\ dlg # NoneVal
    /\ dlg' = SetOccurrencesCheck(dlg, ~dlg.occurrences_check)
    /\ UNCHANGED <<storeVars, callVars, reminderVars, attachments_dir>>

\* a choice in the combo box of the pattern types
SelectPattern(t) ==
    /\ dlg # NoneVal
    /\ dlg.pattern_combo # t
    /\ dlg' = [dlg EXCEPT !.pattern_combo = t]
    /\ UNCHANGED <<storeVars, callVars, reminderVars, attachments_dir>>

\* OK: the caller reads get_recurrence()
AcceptRecurrenceDialog ==
    /\ dlg # NoneVal
    /\ last' = [kind |-> "get_recurrence", recurrence |-> get_recurrence(dlg)]
    /\ dlg' = NoneVal
    /\ UNCHANGED <<tasks, recurrences, attachment_lists, next_file>>
    /\ UNCHANGED <<callVars, reminderVars, attachments_dir>>

DialogInit ==
    /\ pattern = NoneVal
    /\ from_date = NoneVal
    /\ result = NoneVal
    /\ pc = "dialog"
    /\ tasks = <<>>
    /\ recurrences = <<>>
    /\ attachment_lists = <<>>
    /\ next_file = 1
    /\ last = [kind |-> "start"]
    /\ reminded_tasks = {}
    /\ shown = <<>>
    /\ boxes = <<>>
    /\ now = NoneVal
    /\ attachments_dir = {}
    /\ dlg = NoneVal

DialogNext ==
    \/ \E recurrence \in LoadedPatterns : OpenRecurrenceDialog(recurrence)
    \/ ClickEndDateCheck
    \/ ClickOccurrencesCheck
    \/ \E t \in {NONE, DAILY, WEEKLY} : SelectPattern(t)
    \/ AcceptRecurrenceDialog

DialogSpec == DialogInit /\ [][DialogNext]_vars

(***************************************************************************)
(* The main window: Add Task, Edit Task and Delete Task.  The task dialog  *)
(* is modal; an action is the whole handler, from the opening of the       *)
(* dialog to the store operation made when the dialog is accepted.         *)
(***************************************************************************)
IN_PROGRESS == "In Progress"

\* what the form of the task dialog holds when it is accepted
Forms ==
    [title : {"Report"},
     status : {NOT_STARTED, IN_PROGRESS, COMPLETED},
     deadline : {[year |-> 2024, month |-> 1, day |-> 31, sec |-> 32400, us |-> 0]},
     reminder_offset : {"1 day before"}]

\* TaskDialog.get_task_data: a new dictionary made from the form, with the
\* attachments of the dialog's task_data; it has no key 'recurrence'
get_task_data(form, attachments) ==
    [title |-> form.title,
     status |-> form.status,
     deadline |-> form.deadline,
     reminder_offset |-> form.reminder_offset,
     reminder_time |-> ReminderTimeFor(form.deadline, form.reminder_offset),
     completed |-> (form.status = COMPLETED),
     attachments |-> attachments,
     recurrence |-> NoneVal]

\* TaskTableModel.update_task
update_task(ts, row, task_data) == [ts EXCEPT ![row] = task_data]

\* TaskTableModel.remove_task: the list without the row; nothing is returned
remove_task(ts, row) ==
    [tasks |-> SubSeq(ts, 1, row - 1) \o SubSeq(ts, row + 1, Len(ts)),
     ret |-> NoneVal]

\* FileManager.clean_unused_attachments: the directory without the paths
clean_unused_attachments(dir, unused_paths) ==
    dir \ {unused_paths[i] : i \in 1..Len(unused_paths)}

\* the recurrence the user sets in the task dialog, NoneVal when the button
\* Set Recurrence is not used
DialogChoices == {p \in DialogPatterns : p.pattern_type = DAILY} \cup {NoneVal}

\* TaskManagerApp.add_task, the dialog accepted: set_recurrence writes to the
\* dialog's own task_data, get_task_data makes the record that is stored
AddTask(form, p) ==
    /\ Len(tasks) < MaxTasks
    /\ Len(attachment_lists) < MaxFiles
    /\ attachment_lists' = Append(attachment_lists, <<>>)
    /\ tasks' = add_task(tasks,
                         get_task_data(form, [ref |-> Len(attachment_lists) + 1]))
    /\ last' = [kind |-> "add", row |-> Len(tasks) + 1,
                carried |-> IF p = NoneVal THEN NoneVal ELSE to_dict(p)]
    /\ UNCHANGED <<recurrences, next_file>>
    /\ UNCHANGED <<callVars, reminderVars, attachments_dir, dlg>>

\* TaskManagerApp.edit_task, the dialog accepted: set_recurrence writes to the
\* stored dictionary, which update_task then replaces by the record of
\* get_task_data; update_task returns nothing, so nothing is cleaned
EditTask(row, form, p) ==
    /\ tasks' = update_task(tasks, row, get_task_data(form, tasks[row].attachments))
    /\ last' = [kind |-> "edit", row |-> row,
                carried |-> IF p # NoneVal THEN to_dict(p)
                            ELSE RecurrenceOf(tasks[row])]
    /\ UNCHANGED <<recurrences, attachment_lists, next_file>>
    /\ UNCHANGED <<callVars, reminderVars, attachments_dir, dlg>>

\* TaskManagerApp.delete_task, the deletion confirmed
DeleteTask(row) ==
    /\ \E removed \in {remove_task(tasks, row)} :
          /\ tasks' = removed.tasks
          /\ attachments_dir' =
                 IF removed.ret = NoneVal THEN attachments_dir
                 ELSE clean_unused_attachments(attachments_dir, removed.ret)
    /\ last' = [kind |-> "delete", row |-> row,
                attachments |-> attachment_lists[tasks[row].attachments.ref]]
    /\ UNCHANGED <<recurrences, attachment_lists, next_file>>
    /\ UNCHANGED <<callVars, reminderVars, dlg>>

\* a recurrence as Set Recurrence stores it: every day, up to 2 February 2024
EndingDict ==
    to_dict([pattern_type |-> DAILY, interval |-> 1, weekdays |-> {},
             end_date |-> [year |-> 2024, month |-> 2, day |-> 2, sec |-> 0, us |-> 0],
             occurrences |-> NoneVal])

AppInit ==
    /\ pattern = NoneVal
    /\ from_date = NoneVal
    /\ result = NoneVal
    /\ pc = "app"
    /\ next_file = 1
    /\ last = [kind |-> "start"]
    /\ reminded_tasks = {}
    /\ shown = <<>>
    /\ boxes = <<>>
    /\ now = NoneVal
    /\ dlg = NoneVal
    /\ \E form \in Forms, files \in {<<>>, <<0>>}, rec \in {NoneVal, EndingDict} :
          OneTask(form.deadline, form.reminder_offset, form.status, files, rec)

AppNext ==
    \/ \E form \in Forms, p \in DialogChoices : AddTask(form, p)
    \/ \E row \in 1..Len(tasks), form \in Forms, p \in DialogChoices :
          EditTask(row, form, p)
    \/ \E row \in 1..Len(tasks) : DeleteTask(row)
    \/ \E row \in 1..Len(tasks) : Len(recurrences) < MaxDicts /\ MarkAsCompleted(row)

AppSpec == AppInit /\ [][AppNext]_vars

(***************************************************************************)
(* ReminderSystem.  The timer of the main window calls check_reminders     *)
(* every minute.  show_reminder runs a modal message box: its exec_() is a *)
(* nested event loop, in which the timer goes on firing while the window   *)
(* takes no input.  boxes is the stack of the calls of check_reminders     *)
(* that wait in a message box, the innermost last; shown lists the         *)
(* message boxes that were opened.                                         *)
(***************************************************************************)
\* str(deadline) in the f-string of line 26
StrOfDeadline(d) ==
    IF d = NoneVal THEN <<"None">> ELSE <<d.year, d.month, d.day, d.sec, d.us>>

\* line 26: the identifier made of the title and the deadline
TaskId(task) == [title |-> task.title, deadline |-> StrOfDeadline(task.deadline)]

\* reminder_time <= now
NotAfter(a, b) ==
    \/ ToOrdinal(a) < ToOrdinal(b)
    \/ ToOrdinal(a) = ToOrdinal(b) /\ a.sec < b.sec
    \/ ToOrdinal(a) = ToOrdinal(b) /\ a.sec = b.sec /\ a.us <= b.us

\* the tests of lines 22 and 30 without the test of 'completed'
NeedsReminderAlsoCompleted(task, at, reminded) ==
    /\ task.reminder_time # NoneVal
    /\ NotAfter(task.reminder_time, at)
    /\ TaskId(task) \notin reminded

\* lines 22 and 30: the task is shown a reminder
NeedsReminder(task, at, reminded) ==
    /\ ~task.completed
    /\ task.reminder_time # NoneVal
    /\ NotAfter(task.reminder_time, at)
    /\ TaskId(task) \notin reminded

\* the loop of line 20 from index i on: the first task that is shown a
\* reminder, 0 when the loop ends without one
RECURSIVE FirstToRemind(_, _, _)
FirstToRemind(i, at, reminded) ==
    IF i > Len(tasks) THEN 0
    ELSE IF NeedsReminder(tasks[i], at, reminded) THEN i
    ELSE FirstToRemind(i + 1, at, reminded)

\* show_reminder(task): the message box that opens
MessageBox(i, at) ==
    [i |-> i, at |-> at, task_id |-> TaskId(tasks[i])]

\* what shown records of a message box
Shown(i) ==
    [row |-> i, task_id |-> TaskId(tasks[i]), completed |-> tasks[i].completed,
     reminder_time |-> tasks[i].reminder_time]

\* the timer fires: check_reminders runs up to its first message box, or to
\* its end
Tick ==
    /\ now # NoneVal
    /\ Len(boxes) < MaxBoxes
    /\ \E i \in {FirstToRemind(1, now, reminded_tasks)} :
          IF i = 0
          THEN /\ last' = [kind |-> "checked", at |-> now]
               /\ UNCHANGED <<boxes, shown>>
          ELSE /\ boxes' = Append(boxes, MessageBox(i, now))
               /\ shown' = Append(shown, Shown(i))
               /\ last' = [kind |-> "box"]
    /\ UNCHANGED <<reminded_tasks, now>>
    /\ UNCHANGED <<tasks, recurrences, attachment_lists, next_file>>
    /\ UNCHANGED <<callVars, attachments_dir, dlg>>

\* OK in the innermost message box: line 32 adds the identifier, and the loop
\* goes on to its next message box, or to its end
CloseBox ==
    /\ boxes # <<>>
    /\ LET box      == boxes[Len(boxes)]
           reminded == reminded_tasks \cup {box.task_id}
       IN  /\ reminded_tasks' = reminded
           /\ \E i \in {FirstToRemind(box.i + 1, box.at, reminded)} :
                 IF i = 0
                 THEN /\ boxes' = SubSeq(boxes, 1, Len(boxes) - 1)
                      /\ last' = [kind |-> "checked", at |-> box.at]
                      /\ UNCHANGED shown
                 ELSE /\ boxes' = [boxes EXCEPT ![Len(boxes)] = MessageBox(i, box.at)]
                      /\ shown' = Append(shown, Shown(i))
                      /\ last' = [kind |-> "box"]
    /\ UNCHANGED now
    /\ UNCHANGED <<tasks, recurrences, attachment_lists, next_file>>
    /\ UNCHANGED <<callVars, attachments_dir, dlg>>

\* the values datetime.now() takes in the model
ClockTimes ==
    {[year |-> 2024, month |-> 1, day |-> 30, sec |-> 28800, us |-> 0],
     [year |-> 2024, month |-> 1, day |-> 30, sec |-> 32400, us |-> 0],
     [year |-> 2024, month |-> 1, day |-> 31, sec |-> 32400, us |-> 0]}

\* time passes
AdvanceClock ==
    /\ \E t \in ClockTimes : t # now /\ NotAfter(now, t) /\ now' = t
    /\ UNCHANGED <<reminded_tasks, shown, boxes>>
    /\ UNCHANGED <<storeVars, callVars, attachments_dir, dlg>>

ReminderInit ==
    /\ pattern = NoneVal
    /\ from_date = NoneVal
    /\ result = NoneVal
    /\ pc = "reminder"
    /\ next_file = 1
    /\ last = [kind |-> "start"]
    /\ reminded_tasks = {}
    /\ shown = <<>>
    /\ boxes = <<>>
    /\ now \in ClockTimes
    /\ dlg = NoneVal
    /\ \E form \in Forms, rec \in {NoneVal, EndingDict} :
          OneTask(form.deadline, form.reminder_offset, form.status, <<>>, rec)

\* the main window takes input only while no message box is open
ReminderNext ==
    \/ Tick
    \/ CloseBox
    \/ AdvanceClock
    \/ \E form \in Forms : boxes = <<>> /\ AddTask(form, NoneVal)
    \/ \E row \in 1..Len(tasks) : boxes = <<>> /\ MarkAsCompleted(row)

ReminderSpec == ReminderInit /\ [][ReminderNext]_vars

(***************************************************************************)
(* What the properties of the store speak of: the call of                  *)
(* handle_completed_task that was made last, the record it was given, the  *)
(* store it found and the record it added.                                 *)
(***************************************************************************)
Called == last.kind \in {"handle", "mark"}
Input == last.tasks[last.row]
InputDict ==
    IF Input.recurrence = NoneVal THEN NoneVal
    ELSE last.recurrences[Input.recurrence.ref]
HasDict == InputDict # NoneVal /\ InputDict # EmptyDict
Created == Called /\ last.ret = RetTrue
Successor == tasks[Len(tasks)]
SuccessorDict ==
    IF Successor.recurrence = NoneVal THEN NoneVal
    ELSE recurrences[Successor.recurrence.ref]
StoreUnchanged ==
    /\ tasks = last.tasks
    /\ recurrences = last.recurrences
    /\ attachment_lists = last.attachment_lists
ExpectedDeadline == get_next_occurrence(from_dict(InputDict), Input.deadline)
FiveOffsets ==
    {"5 minutes before", "15 minutes before", "30 minutes before",
     "1 hour before", "1 day before"}
OffsetSeconds(o) ==
    IF o = "5 minutes before" THEN 5 * 60
    ELSE IF o = "15 minutes before" THEN 15 * 60
    ELSE IF o = "30 minutes before" THEN 30 * 60
    ELSE IF o = "1 hour before" THEN 60 * 60
    ELSE 24 * 60 * 60
SecondsBetween(a, b) == (ToOrdinal(b) - ToOrdinal(a)) * 86400 + (b.sec - a.sec)

(***************************************************************************)
(* C12: handle_completed_task on a task whose recurrence pattern has type  *)
(* None returns False and inserts nothing: the store holds the same        *)
(* records afterwards.                                                     *)
(***************************************************************************)
C12_NoneNoSuccessor ==
    (Called /\ HasDict /\ InputDict.pattern_type = NONE)
    => (last.ret = RetFalse /\ StoreUnchanged)

C12_Witness ==
    /\ last.kind = "mark"
    /\ HasDict
    /\ InputDict.pattern_type = NONE
    /\ InputDict.interval = 1
    /\ Input.deadline # NoneVal
    /\ last.ret = RetFalse
    /\ Len(tasks) = 1

(***************************************************************************)
(* C13: a task with a missing deadline, with a missing or null recurrence  *)
(* pattern, or with an unrecognised pattern type makes                     *)
(* handle_completed_task return False, raise nothing and leave the store   *)
(* unchanged.                                                              *)
(***************************************************************************)
C13_FailureModesBenign ==
    (/\ Called
     /\ \/ Input.deadline = NoneVal
        \/ ~HasDict
        \/ InputDict.pattern_type \notin {NONE, DAILY, WEEKLY, MONTHLY, CUSTOM})
    => (last.ret = RetFalse /\ StoreUnchanged)

C13_Witness ==
    /\ Called
    /\ Input.deadline = NoneVal
    /\ HasDict
    /\ InputDict.pattern_type = MONTHLY
    /\ InputDict.interval < 0
    /\ last.ret = RetFalse
    /\ StoreUnchanged

(***************************************************************************)
(* C14 as stated: a successor has every field of the completed task,       *)
(* except that its deadline is get_next_occurrence of the completed task's *)
(* deadline, its status 'Not Started' and completed false.                 *)
(***************************************************************************)
C14_CopyButThreeFields ==
    Created =>
        Successor = [Input EXCEPT !.deadline = ExpectedDeadline,
                                  !.status = NOT_STARTED,
                                  !.completed = FALSE]

(***************************************************************************)
(* C14 amended: a successor has every field of the completed task, except  *)
(* that its deadline is get_next_occurrence of the completed task's        *)
(* deadline, its status 'Not Started' and completed false, its             *)
(* reminder_time recomputed from the new deadline when the task has one of *)
(* the five reminder offsets, and its recurrence pattern a copy with the   *)
(* count decremented when the pattern carries a non-zero count; so also    *)
(* when the completed task was marked 'Completed' before the call.         *)
(***************************************************************************)
C14_CopyButDerivedFields ==
    Created =>
        /\ Successor.title = Input.title
        /\ Successor.reminder_offset = Input.reminder_offset
        /\ attachment_lists[Successor.attachments.ref]
             = last.attachment_lists[Input.attachments.ref]
        /\ Successor.deadline = ExpectedDeadline
        /\ Successor.status = NOT_STARTED
        /\ Successor.completed = FALSE
        /\ Input.reminder_offset \notin FiveOffsets
             => Successor.reminder_time = Input.reminder_time
        /\ ~Truthy(InputDict.occurrences) => SuccessorDict = InputDict
        /\ Truthy(InputDict.occurrences)
             => [SuccessorDict EXCEPT !.occurrences = InputDict.occurrences] = InputDict

C14_Witness ==
    /\ Created
    /\ last.kind = "mark"
    /\ Input.status = COMPLETED
    /\ Input.completed
    /\ Successor.status = NOT_STARTED
    /\ ~Successor.completed
    /\ Input.reminder_offset = NO_REMINDER
    /\ DateKey(Successor.deadline) > DateKey(Input.deadline)

(***************************************************************************)
(* C15: with one of the five reminder offsets, the successor's             *)
(* reminder_time is its new deadline minus that offset, not the reminder   *)
(* time of the completed task.                                             *)
(***************************************************************************)
C15_ReminderFollowsDeadline ==
    (Created /\ Input.reminder_offset \in FiveOffsets) =>
        /\ IsDateTime(Successor.reminder_time)
        /\ SecondsBetween(Successor.reminder_time, Successor.deadline)
             = OffsetSeconds(Input.reminder_offset)
        /\ Successor.reminder_time.us = Successor.deadline.us
        /\ StrictlyLater(Successor.deadline, Input.deadline)
             => Successor.reminder_time # Input.reminder_time

C15_Witness ==
    /\ Created
    /\ Input.reminder_offset = "1 day before"
    /\ DateKey(Input.deadline) = 20240228
    /\ DateKey(Successor.deadline) = 20240328
    /\ DateKey(Successor.reminder_time) = 20240327

(***************************************************************************)
(* C16: when the pattern carries a count n >= 1 and a next occurrence      *)
(* exists, the successor's pattern carries n - 1 and is otherwise the      *)
(* pattern of the completed task; for n = 1 a successor with count 0 is    *)
(* created.                                                                *)
(***************************************************************************)
C16_CountDecremented ==
    (/\ Called
     /\ HasDict
     /\ InputDict.occurrences # NoneVal
     /\ InputDict.occurrences.count >= 1
     /\ Input.deadline # NoneVal
     /\ IsDateTime(ExpectedDeadline))
    => /\ last.ret = RetTrue
       /\ SuccessorDict =
            [InputDict EXCEPT !.occurrences = [count |-> InputDict.occurrences.count - 1]]

C16_Witness ==
    /\ Created
    /\ InputDict.occurrences = [count |-> 1]
    /\ SuccessorDict.occurrences = [count |-> 0]
    /\ Len(tasks) = 2

(***************************************************************************)
(* C17: a call of handle_completed_task inserts exactly one record when it *)
(* returns True and none otherwise, and it never removes or replaces a     *)
(* record of the store.                                                    *)
(***************************************************************************)
C17_ExactlyOneInsertion ==
    Called =>
        /\ last.ret = RetTrue
             => /\ Len(tasks) = Len(last.tasks) + 1
                /\ SubSeq(tasks, 1, Len(last.tasks)) = last.tasks
        /\ last.ret # RetTrue => tasks = last.tasks
        /\ SubSeq(recurrences, 1, Len(last.recurrences)) = last.recurrences
        /\ attachment_lists = last.attachment_lists

C17_Witness ==
    /\ Created
    /\ Len(last.tasks) = 2
    /\ Len(tasks) = 3
    /\ last.row = 1

(***************************************************************************)
(* C18: a lineage ends once the occurrence count has reached zero:         *)
(* completing a successor whose pattern has no end date and a remaining    *)
(* count of 0 creates no further successor.                                *)
(***************************************************************************)
C18_ZeroCountStops ==
    (/\ Called
     /\ last.row > 1
     /\ HasDict
     /\ InputDict.occurrences = [count |-> 0]
     /\ InputDict.end_date = NoneVal)
    => last.ret # RetTrue

(***************************************************************************)
(* C19: the end date stops a lineage before any counting: with an end date *)
(* and a positive remaining count, a candidate dated after the end date    *)
(* makes handle_completed_task create nothing and decrement nothing; and   *)
(* with an end date and a positive interval every successor keeps the end  *)
(* date and has a deadline dated after its predecessor's and not after the *)
(* end date, so that a lineage has no more successors than there are days  *)
(* up to the end date.                                                     *)
(***************************************************************************)
HasEndDate ==
    /\ HasDict
    /\ InputDict.end_date # NoneVal
    /\ Len(InputDict.end_date.isoformat) = 5
EndKey ==
    InputDict.end_date.isoformat[1] * 10000
        + InputDict.end_date.isoformat[2] * 100
        + InputDict.end_date.isoformat[3]
InputCandidate == Candidate(InputDict, Input.deadline)

AttachmentsOf(ts, lists, j) == lists[ts[j].attachments.ref]
PatternOf(ts, dicts, j) ==
    IF ts[j].recurrence = NoneVal THEN NoneVal ELSE dicts[ts[j].recurrence.ref]

C20_NoSharedMutablePart ==
    last.kind \in {"attachments", "recurrence"} =>
        \A j \in 1..Len(last.tasks) :
            j # last.row =>
                /\ AttachmentsOf(tasks, attachment_lists, j)
                     = AttachmentsOf(last.tasks, last.attachment_lists, j)
                /\ PatternOf(tasks, recurrences, j)
                     = PatternOf(last.tasks, last.recurrences, j)

(***************************************************************************)
(* C21: handle_completed_task only reads the record it is given: after the *)
(* call, with or without a successor, the record has the deadline, status, *)
(* completed flag, reminder_time and recurrence pattern (its count         *)
(* included) that it had before the call.                                  *)
(***************************************************************************)
C21_InputOnlyRead ==
    Called =>
        /\ tasks[last.row].deadline = Input.deadline
        /\ tasks[last.row].status = Input.status
        /\ tasks[last.row].completed = Input.completed
        /\ tasks[last.row].reminder_time = Input.reminder_time
        /\ PatternOf(tasks, recurrences, last.row) = InputDict

C21_Witness ==
    /\ Created
    /\ last.kind = "mark"
    /\ Input.reminder_offset = "1 day before"
    /\ InputDict.occurrences = [count |-> 2]
    /\ SuccessorDict.occurrences = [count |-> 1]
    /\ PatternOf(tasks, recurrences, last.row).occurrences = [count |-> 2]
    /\ tasks[last.row].status = COMPLETED
    /\ Successor.deadline # tasks[last.row].deadline

(***************************************************************************)
(* C23: a recurring record gives rise to at most one successor: Mark as    *)
(* Completed on a record that is already completed inserts no record.      *)
(***************************************************************************)
C23_MarkedAgainNoSuccessor ==
    (last.kind = "mark" /\ last.completed_before) => last.ret # RetTrue

(***************************************************************************)
(* C27: along a Monthly lineage every deadline has the day of the month    *)
(* min(d, days of that month), d being the day of the month of the first   *)
(* task.                                                                   *)
(***************************************************************************)
C27_MonthlyKeepsFirstDay ==
    (/\ Len(tasks) >= 1
     /\ tasks[1].deadline # NoneVal
     /\ PatternOf(tasks, recurrences, 1) \notin {NoneVal, EmptyDict}
     /\ PatternOf(tasks, recurrences, 1).pattern_type = MONTHLY
     /\ PatternOf(tasks, recurrences, 1).interval > 0)
    => \A i \in 1..Len(tasks) :
           LET length == MonthLength(tasks[i].deadline.year, tasks[i].deadline.month)
               d      == tasks[1].deadline.day
           IN  tasks[i].deadline.day = IF d < length THEN d ELSE length

(***************************************************************************)
(* C28: in the recurrence dialog the check boxes 'End by' and 'End after'  *)
(* are never both checked, whatever is clicked and whatever pattern was    *)
(* loaded, and get_recurrence never returns a pattern with both an         *)
(* end_date and occurrences.                                               *)
(***************************************************************************)
C28_OneTermination ==
    /\ dlg # NoneVal => ~(dlg.end_date_check /\ dlg.occurrences_check)
    /\ last.kind = "get_recurrence"
         => ~(last.recurrence.end_date # NoneVal /\ last.recurrence.occurrences # NoneVal)

C28_Witness ==
    /\ dlg # NoneVal
    /\ last.kind = "open_recurrence"
    /\ last.loaded.end_date # NoneVal
    /\ last.loaded.occurrences = [count |-> 2]
    /\ dlg.occurrences_check
    /\ ~dlg.end_date_check

(***************************************************************************)
(* C24: a recurrence pattern set in the task dialog, or present on the     *)
(* task that is edited, is carried by the record that is stored when the   *)
(* dialog is accepted.                                                     *)
(***************************************************************************)
C24_PatternCarried ==
    (last.kind \in {"add", "edit"} /\ last.carried # NoneVal)
    => PatternOf(tasks, recurrences, last.row) = last.carried

(***************************************************************************)
(* C25: every record of the store has completed = true exactly when its    *)
(* status is 'Completed', after any adding, editing, marking as completed  *)
(* and creation of successors.                                             *)
(***************************************************************************)
C25_CompletedIffStatus ==
    \A i \in 1..Len(tasks) : tasks[i].completed <=> (tasks[i].status = COMPLETED)

C25_Witness ==
    /\ last.kind = "mark"
    /\ last.ret = RetTrue
    /\ Len(tasks) = 3
    /\ tasks[last.row].completed
    /\ ~tasks[Len(tasks)].completed
    /\ tasks[Len(tasks)].status = NOT_STARTED
    /\ \E i \in 1..Len(tasks) : tasks[i].status = IN_PROGRESS /\ ~tasks[i].completed

(***************************************************************************)
(* C29: after a confirmed delete_task none of the attachment files of the  *)
(* deleted task remains in the attachments directory.                      *)
(***************************************************************************)
C29_DeleteCleansFiles ==
    last.kind = "delete" =>
        \A i \in 1..Len(last.attachments) : last.attachments[i] \notin attachments_dir
\* C22: a reminder for a given task, named by its title and its deadline, is
\* shown at most once in a session: no two message boxes that were opened
\* carry the same identifier.
C22_ShownAtMostOnce ==
    \A a \in 1..Len(shown) : \A b \in 1..Len(shown) :
        a # b => shown[a].task_id # shown[b].task_id

\* C26: when a call of check_reminders has ended, every task that is not
\* completed and whose reminder time has passed has had a message box of its
\* own, with the reminder time it has now.
C26_EveryDueTaskShown ==
    (last.kind = "checked" /\ boxes = <<>>) =>
        \A i \in 1..Len(tasks) :
            (/\ ~tasks[i].completed
             /\ tasks[i].reminder_time # NoneVal
             /\ NotAfter(tasks[i].reminder_time, last.at))
            => \E k \in 1..Len(shown) :
                  /\ shown[k].row = i
                  /\ shown[k].reminder_time = tasks[i].reminder_time

\* C30: no message box is opened for a record that is completed when it is
\* checked, and the successor that completing a recurring task creates is not
\* completed and has the reminder time its offset gives, so that the test of
\* line 22 passes it.
C30_CompletedNeverReminded ==
    /\ \A k \in 1..Len(shown) : ~shown[k].completed
    /\ (last.kind = "mark" /\ Created) =>
          /\ ~tasks[Len(tasks)].completed
          /\ (Input.reminder_offset \in FiveOffsets =>
                 /\ tasks[Len(tasks)].reminder_time # NoneVal
                 /\ TaskId(tasks[Len(tasks)]) # TaskId(Input))

\* a completed recurring task that is due was passed over, and its successor
\* has had its message box
C30_Witness ==
    /\ Len(tasks) >= 2
    /\ tasks[1].completed
    /\ tasks[1].reminder_time # NoneVal
    /\ now # NoneVal
    /\ NotAfter(tasks[1].reminder_time, now)
    /\ \A k \in 1..Len(shown) : shown[k].row # 1
    /\ \E k \in 1..Len(shown) :
          /\ shown[k].row = Len(tasks)
          /\ tasks[Len(tasks)].status = NOT_STARTED
          /\ tasks[Len(tasks)].recurrence # NoneVal

==============================================================================
